---- MODULE Spec2Model ----
(***************************************************************************)
(* Model of bank_app.py: the BankAccount entity (balance + transaction     *)
(* log) and the BankingSystem registry (account_number -> BankAccount).    *)
(*                                                                         *)
(* Python values that reach the numeric checks are modelled as tagged      *)
(* records, because the checks are isinstance(x, (int, float)) followed by *)
(* float comparisons:                                                      *)
(*   [k |-> "num", v |-> n]   a finite number n                            *)
(*   [k |-> "inf", v |-> 1]   float("inf");  v |-> -1 is float("-inf")     *)
(*   [k |-> "nan", v |-> 0]   float("nan")                                 *)
(*   [k |-> "str", v |-> 0]   a value that is neither int nor float        *)
(*   [k |-> "none", v |-> 0]  None                                         *)
(* Finite numbers are exact integers: rounding of finite floats is not     *)
(* modelled.  Comparisons and arithmetic on inf/nan follow IEEE-754 as     *)
(* Python's float does.                                                    *)
(***************************************************************************)
EXTENDS Integers, Sequences, FiniteSets, TLC

\* ---------------------------------------------------------------- bounds
MaxAmount == 2        \* finite amounts offered to the operations: -1 .. MaxAmount
MaxAccounts == 2      \* size of the pool of account numbers uuid4 may return
MaxCalls == 3         \* calls made on the system in one run

\* ---------------------------------------------------------------- values
Num(n) == [k |-> "num", v |-> n]
PosInf == [k |-> "inf", v |-> 1]
NegInf == [k |-> "inf", v |-> -1]
NaN == [k |-> "nan", v |-> 0]
NotANumberObject == [k |-> "str", v |-> 0]
None == [k |-> "none", v |-> 0]
Zero == Num(0)

\* isinstance(x, (int, float))
IsNumber(x) == x.k \in {"num", "inf", "nan"}

\* Python float comparison  a < b  (False whenever an operand is nan)
Lt(a, b) ==
    IF a.k = "nan" \/ b.k = "nan" THEN FALSE
    ELSE IF a.k = "num" /\ b.k = "num" THEN a.v < b.v
    ELSE IF a.k = "inf" /\ b.k = "inf" THEN a.v < b.v
    ELSE IF a.k = "inf" THEN a.v < 0
    ELSE b.v > 0

\* Python  a == b  on numbers (False whenever an operand is nan)
Eq(a, b) == a.k # "nan" /\ b.k # "nan" /\ a = b

\* Python  a <= b
Le(a, b) == Lt(a, b) \/ Eq(a, b)

\* Python  a > b
Gt(a, b) == Lt(b, a)

\* Python  a >= b
Ge(a, b) == Le(b, a)

\* Python unary minus
Neg(a) ==
    IF a.k = "nan" THEN NaN ELSE [k |-> a.k, v |-> 0 - a.v]

\* Python  a + b  (inf + -inf is nan; nan is absorbing)
Add(a, b) ==
    IF a.k = "nan" \/ b.k = "nan" THEN NaN
    ELSE IF a.k = "num" /\ b.k = "num" THEN Num(a.v + b.v)
    ELSE IF a.k = "inf" /\ b.k = "inf" THEN (IF a.v = b.v THEN a ELSE NaN)
    ELSE IF a.k = "inf" THEN a
    ELSE b

\* Python  a - b
Sub(a, b) == Add(a, Neg(b))

\* ---------------------------------------------------------------- results
\* What a call hands back: a returned value or a raised exception.
\*   tag  "return" | "raise"
\*   type the class of the returned value or of the exception
\*   msg  the text of the message (without the formatted number / id)
\*   val  the number or account number embedded in the message / returned
\*   cause the text of a caught exception embedded in the message
Return(type, msg, val) ==
    [tag |-> "return", type |-> type, msg |-> msg, val |-> val, cause |-> ""]
Raise(type, msg) ==
    [tag |-> "raise", type |-> type, msg |-> msg, val |-> None, cause |-> ""]
AccountNumber(id) == [k |-> "id", v |-> id]

\* ---------------------------------------------------------------- inputs
Ids == 1..MaxAccounts
Names == {"Alice"}
AccountTypes == {"Savings", "Checking"}
Values == {Num(n) : n \in -1..MaxAmount} \cup {PosInf, NegInf, NaN, NotANumberObject}

VARIABLES
    accounts,   \* BankingSystem.accounts: account_number -> BankAccount
    opening,    \* history: account_number -> the initial_balance it was created with
    issued,     \* history: the account numbers uuid4 has returned so far
    clock,      \* logical time read by date.today() / datetime.now(); one tick per call
    last,       \* the latest call: [op, id, arg, res]
    prev        \* history: the call before it, in brief: [op, id, msg]

vars == <<accounts, opening, issued, clock, last, prev>>

NoCall == [op |-> "none", id |-> 0, arg |-> None, res |-> Return("NoneType", "", None)]
Call(op, id, arg, res) == [op |-> op, id |-> id, arg |-> arg, res |-> res]
Brief(call) == [op |-> call.op, id |-> call.id, msg |-> call.res.msg]

\* ---------------------------------------------------------------- BankAccount
NoAccount ==
    [account_number |-> 0, account_holder_name |-> "", balance |-> Zero,
     account_type |-> "", transactions |-> <<>>, creation_date |-> 0]

\* variant of BankAccount: the balance starts at zero whatever initial_balance is
BankAccount_ZeroBalance(account_holder_name, initial_balance, account_type, uuid4, today) ==
    IF ~IsNumber(initial_balance)
    THEN [exc |-> Raise("TypeError", "Initial balance must be a number."), self |-> NoAccount]
    ELSE IF Lt(initial_balance, Zero)
    THEN [exc |-> Raise("ValueError", "Initial balance cannot be negative."), self |-> NoAccount]
    ELSE [exc |-> Return("NoneType", "", None),
          self |-> [account_number |-> uuid4,
                    account_holder_name |-> account_holder_name,
                    balance |-> Zero,
                    account_type |-> account_type,
                    transactions |-> <<>>,
                    creation_date |-> today]]

\* BankAccount.__init__: [exc, self]; exc.tag = "raise" when construction fails
BankAccount(account_holder_name, initial_balance, account_type, uuid4, today) ==
    IF ~IsNumber(initial_balance)
    THEN [exc |-> Raise("TypeError", "Initial balance must be a number."), self |-> NoAccount]
    ELSE IF Lt(initial_balance, Zero)
    THEN [exc |-> Raise("ValueError", "Initial balance cannot be negative."), self |-> NoAccount]
    ELSE [exc |-> Return("NoneType", "", None),
          self |-> [account_number |-> uuid4,
                    account_holder_name |-> account_holder_name,
                    balance |-> initial_balance,
                    account_type |-> account_type,
                    transactions |-> <<>>,
                    creation_date |-> today]]

\* variant of add_transaction: the log keeps only the latest record
add_transaction_Overwrite(self, transaction_type, amount, now) ==
    [self EXCEPT !.transactions =
        <<[timestamp |-> now, type |-> transaction_type, amount |-> amount]>>]

\* BankAccount._add_transaction
add_transaction(self, transaction_type, amount, now) ==
    [self EXCEPT !.transactions =
        Append(@, [timestamp |-> now, type |-> transaction_type, amount |-> amount])]

\* variant of deposit: the amount check is  amount < 0, so zero is accepted
deposit_AcceptsZero(self, amount, now) ==
    IF ~IsNumber(amount)
    THEN [res |-> Raise("TypeError", "Deposit amount must be a number."), self |-> self]
    ELSE IF Lt(amount, Zero)
    THEN [res |-> Raise("ValueError", "Deposit amount must be positive."), self |-> self]
    ELSE LET credited == [self EXCEPT !.balance = Add(@, amount)]
         IN [res |-> Return("str", "Deposited", credited.balance),
             self |-> add_transaction(credited, "Deposit", amount, now)]

\* BankAccount.deposit: [res, self]
deposit(self, amount, now) ==
    IF ~IsNumber(amount)
    THEN [res |-> Raise("TypeError", "Deposit amount must be a number."), self |-> self]
    ELSE IF Le(amount, Zero)
    THEN [res |-> Raise("ValueError", "Deposit amount must be positive."), self |-> self]
    ELSE LET credited == [self EXCEPT !.balance = Add(@, amount)]
         IN [res |-> Return("str", "Deposited", credited.balance),
             self |-> add_transaction(credited, "Deposit", amount, now)]

\* variant of withdraw: the balance is not compared with the amount
withdraw_NoFundsCheck(self, amount, now) ==
    IF ~IsNumber(amount)
    THEN [res |-> Raise("TypeError", "Withdrawal amount must be a number."), self |-> self]
    ELSE IF Le(amount, Zero)
    THEN [res |-> Raise("ValueError", "Withdrawal amount must be positive."), self |-> self]
    ELSE LET debited == [self EXCEPT !.balance = Sub(@, amount)]
         IN [res |-> Return("str", "Withdrew", debited.balance),
             self |-> add_transaction(debited, "Withdrawal", Neg(amount), now)]

\* BankAccount.withdraw: [res, self]
withdraw(self, amount, now) ==
    IF ~IsNumber(amount)
    THEN [res |-> Raise("TypeError", "Withdrawal amount must be a number."), self |-> self]
    ELSE IF Le(amount, Zero)
    THEN [res |-> Raise("ValueError", "Withdrawal amount must be positive."), self |-> self]
    ELSE IF Gt(amount, self.balance)
    THEN [res |-> Raise("ValueError", "Insufficient funds."), self |-> self]
    ELSE LET debited == [self EXCEPT !.balance = Sub(@, amount)]
         IN [res |-> Return("str", "Withdrew", debited.balance),
             self |-> add_transaction(debited, "Withdrawal", Neg(amount), now)]

\* BankAccount.get_balance
get_balance(self) == self.balance

\* BankAccount.get_transaction_history
get_transaction_history(self) == self.transactions

\* ---------------------------------------------------------------- BankingSystem
\* variant of Caught: the except clause names ValueError only
Caught_OnlyValueError == {"ValueError"}

\* the exception classes create_account's except clause catches
Caught == {"TypeError", "ValueError"}

\* BankingSystem.create_account: [res, accounts]
create_account(accts, account_holder_name, initial_balance, account_type, uuid4, today) ==
    LET made == BankAccount(account_holder_name, initial_balance, account_type, uuid4, today)
    IN IF made.exc.tag = "raise"
       THEN IF made.exc.type \in Caught
            THEN [res |-> [Return("str", "Account creation failed", None)
                              EXCEPT !.cause = made.exc.msg],
                  accounts |-> accts]
            ELSE [res |-> made.exc, accounts |-> accts]
       ELSE [res |-> Return("str", "Account created successfully",
                            AccountNumber(made.self.account_number)),
             accounts |-> [n \in DOMAIN accts \cup {made.self.account_number} |->
                              IF n = made.self.account_number THEN made.self ELSE accts[n]]]

\* BankingSystem.get_account: the stored account, or None (modelled as NoAccount)
get_account(accts, account_number) ==
    IF account_number \in DOMAIN accts THEN accts[account_number] ELSE NoAccount

\* variant of delete_account: the entry is reported deleted but stays in the mapping
delete_account_KeepsEntry(accts, account_number) ==
    IF account_number \in DOMAIN accts
    THEN [res |-> Return("str", "deleted successfully", AccountNumber(account_number)),
          accounts |-> accts]
    ELSE [res |-> Return("str", "not found", AccountNumber(account_number)),
          accounts |-> accts]

\* BankingSystem.delete_account: [res, accounts]
delete_account(accts, account_number) ==
    IF account_number \in DOMAIN accts
    THEN [res |-> Return("str", "deleted successfully", AccountNumber(account_number)),
          accounts |-> [n \in DOMAIN accts \ {account_number} |-> accts[n]]]
    ELSE [res |-> Return("str", "not found", AccountNumber(account_number)),
          accounts |-> accts]

\* ---------------------------------------------------------------- state machine
Init ==
    /\ accounts = <<>>
    /\ opening = <<>>
    /\ issued = {}
    /\ clock = 0
    /\ last = NoCall
    /\ prev = Brief(NoCall)

\* a caller invokes BankingSystem.create_account
CallCreateAccount ==
    /\ clock < MaxCalls
    /\ \E name \in Names, initial \in Values, type \in AccountTypes, uuid4 \in Ids \ issued :
         LET out == create_account(accounts, name, initial, type, uuid4, clock)
             created == out.res.msg = "Account created successfully"
         IN /\ accounts' = out.accounts
            /\ opening' = IF created
                          THEN [n \in DOMAIN opening \cup {uuid4} |->
                                   IF n = uuid4 THEN initial ELSE opening[n]]
                          ELSE opening
            /\ issued' = IF created THEN issued \cup {uuid4} ELSE issued
            /\ last' = Call("create_account", 0, initial, out.res)
    /\ prev' = Brief(last)
    /\ clock' = clock + 1

\* a caller invokes BankingSystem.get_account
CallGetAccount ==
    /\ clock < MaxCalls
    /\ \E n \in Ids :
         LET got == get_account(accounts, n)
         IN last' = Call("get_account", n, None,
                         IF got = NoAccount
                         THEN Return("NoneType", "", None)
                         ELSE Return("BankAccount", "", AccountNumber(got.account_number)))
    /\ prev' = Brief(last)
    /\ clock' = clock + 1
    /\ UNCHANGED <<accounts, opening, issued>>

\* a caller invokes deposit on an account it got from the system
CallDeposit ==
    /\ clock < MaxCalls
    /\ \E n \in DOMAIN accounts, amount \in Values :
         LET out == deposit(accounts[n], amount, clock)
         IN /\ accounts' = [accounts EXCEPT ![n] = out.self]
            /\ last' = Call("deposit", n, amount, out.res)
    /\ prev' = Brief(last)
    /\ clock' = clock + 1
    /\ UNCHANGED <<opening, issued>>

\* a caller invokes withdraw on an account it got from the system
CallWithdraw ==
    /\ clock < MaxCalls
    /\ \E n \in DOMAIN accounts, amount \in Values :
         LET out == withdraw(accounts[n], amount, clock)
         IN /\ accounts' = [accounts EXCEPT ![n] = out.self]
            /\ last' = Call("withdraw", n, amount, out.res)
    /\ prev' = Brief(last)
    /\ clock' = clock + 1
    /\ UNCHANGED <<opening, issued>>

\* a caller invokes BankingSystem.delete_account
CallDeleteAccount ==
    /\ clock < MaxCalls
    /\ \E n \in Ids :
         LET out == delete_account(accounts, n)
         IN /\ accounts' = out.accounts
            /\ opening' = [m \in DOMAIN out.accounts |-> opening[m]]
            /\ last' = Call("delete_account", n, None, out.res)
    /\ prev' = Brief(last)
    /\ clock' = clock + 1
    /\ UNCHANGED issued

Next ==
    \/ CallCreateAccount
    \/ CallGetAccount
    \/ CallDeposit
    \/ CallWithdraw
    \/ CallDeleteAccount

Spec == Init /\ [][Next]_vars

\* ---------------------------------------------------------------- vocabulary of the properties
\* the exceptions the amount checks raise for a non-numeric or non-positive amount
InvalidAmountErrors ==
    {Raise("TypeError", "Deposit amount must be a number."),
     Raise("ValueError", "Deposit amount must be positive."),
     Raise("TypeError", "Withdrawal amount must be a number."),
     Raise("ValueError", "Withdrawal amount must be positive.")}

\* the exception withdraw raises when the amount exceeds the balance
InsufficientFundsError == Raise("ValueError", "Insufficient funds.")

RECURSIVE SumAmounts(_)
SumAmounts(log) ==
    IF log = <<>> THEN Zero
    ELSE Add(SumAmounts(SubSeq(log, 1, Len(log) - 1)), log[Len(log)].amount)

IsPrefix(s, t) == Len(s) <= Len(t) /\ SubSeq(t, 1, Len(s)) = s

\* the step just taken was the call  op(arg)  on account n
Called(op, n) == last'.op = op /\ last'.id = n /\ clock' = clock + 1

\* ---------------------------------------------------------------- C1
\* C1: in every reachable state each account's balance equals its initial
\* balance plus the sum of the signed amounts in its transaction log.
C1_BalanceIsOpeningPlusLog ==
    \A n \in DOMAIN accounts :
        Eq(accounts[n].balance,
           Add(opening[n], SumAmounts(get_transaction_history(accounts[n]))))

\* ---------------------------------------------------------------- C2
\* C2: the balance of every account is >= 0 in every reachable state.
C2_BalanceNonNegative ==
    \A n \in DOMAIN accounts : Ge(get_balance(accounts[n]), Zero)

\* ---------------------------------------------------------------- C3
\* C3: withdraw(amount) with a numeric amount greater than the balance raises
\* the insufficient-funds error, which is none of the invalid-amount errors,
\* and leaves every account (balance and log) as it was.
C3_OverdraftRejected ==
    [][\A n \in DOMAIN accounts :
         (Called("withdraw", n) /\ IsNumber(last'.arg) /\ Gt(last'.arg, accounts[n].balance))
         => /\ last'.res = InsufficientFundsError
            /\ last'.res \notin InvalidAmountErrors
            /\ accounts' = accounts]_vars

\* a withdrawal of more than the balance, from an account with a log, was refused
C3_Witness ==
    /\ last.op = "withdraw"
    /\ last.id \in DOMAIN accounts
    /\ Gt(last.arg, accounts[last.id].balance)
    /\ last.res.tag = "raise"
    /\ Len(accounts[last.id].transactions) > 0

\* ---------------------------------------------------------------- C4
\* C4: deposit(amount) and withdraw(amount) with an amount that is not a number
\* or is <= 0 raise an invalid-amount error (never the insufficient-funds
\* error) and leave every account (balance and log) as it was.
C4_InvalidAmountRejected ==
    [][\A n \in DOMAIN accounts :
         ((Called("deposit", n) \/ Called("withdraw", n))
            /\ (~IsNumber(last'.arg) \/ Le(last'.arg, Zero)))
         => /\ last'.res \in InvalidAmountErrors
            /\ last'.res # InsufficientFundsError
            /\ accounts' = accounts]_vars

\* a withdraw of a non-number was refused, then a deposit of an amount <= 0
C4_Witness ==
    /\ prev.op = "withdraw"
    /\ prev.msg = "Withdrawal amount must be a number."
    /\ last.op = "deposit"
    /\ IsNumber(last.arg) /\ Le(last.arg, Zero)
    /\ last.res.tag = "raise"
    /\ last.id \in DOMAIN accounts

\* ---------------------------------------------------------------- C5
\* C5: deposit(amount) with a numeric amount > 0 succeeds on every account,
\* increases the balance by exactly amount and appends exactly one record,
\* of kind "Deposit" with signed amount equal to amount.
C5_DepositCredits ==
    [][\A n \in DOMAIN accounts :
         (Called("deposit", n) /\ IsNumber(last'.arg) /\ Gt(last'.arg, Zero))
         => /\ last'.res.tag = "return"
            /\ Eq(accounts'[n].balance, Add(accounts[n].balance, last'.arg))
            /\ Len(accounts'[n].transactions) = Len(accounts[n].transactions) + 1
            /\ IsPrefix(accounts[n].transactions, accounts'[n].transactions)
            /\ LET rec == accounts'[n].transactions[Len(accounts'[n].transactions)]
               IN rec.type = "Deposit" /\ Eq(rec.amount, last'.arg)]_vars

\* ---------------------------------------------------------------- C6
\* C6: withdraw(amount) with a numeric amount, 0 < amount <= balance, succeeds,
\* decreases the balance by exactly amount and appends exactly one record,
\* of kind "Withdrawal" with signed amount equal to -amount.
C6_WithdrawDebits ==
    [][\A n \in DOMAIN accounts :
         (Called("withdraw", n) /\ IsNumber(last'.arg) /\ Gt(last'.arg, Zero)
            /\ Le(last'.arg, accounts[n].balance))
         => /\ last'.res.tag = "return"
            /\ Eq(accounts'[n].balance, Sub(accounts[n].balance, last'.arg))
            /\ Len(accounts'[n].transactions) = Len(accounts[n].transactions) + 1
            /\ IsPrefix(accounts[n].transactions, accounts'[n].transactions)
            /\ LET rec == accounts'[n].transactions[Len(accounts'[n].transactions)]
               IN rec.type = "Withdrawal" /\ Eq(rec.amount, Neg(last'.arg))]_vars

\* ---------------------------------------------------------------- C7
\* C7: create_account always returns (never raises); for an initial balance
\* that is not a number or is negative it returns the failure message, which
\* embeds the cause, and the mapping is exactly what it was.
C7_CreateNeverRaises ==
    [][Called("create_account", 0)
         => /\ last'.res.tag = "return"
            /\ (~IsNumber(last'.arg) \/ Lt(last'.arg, Zero))
                 => /\ last'.res.msg = "Account creation failed"
                    /\ last'.res.cause # ""
                    /\ accounts' = accounts]_vars

\* creation with a negative initial balance failed in a ledger that holds an account
C7_Witness ==
    /\ last.op = "create_account"
    /\ IsNumber(last.arg) /\ Lt(last.arg, Zero)
    /\ last.res.msg = "Account creation failed"
    /\ last.res.cause = "Initial balance cannot be negative."
    /\ DOMAIN accounts # {}

C9_CreateThenGet ==
    [][/\ (Called("create_account", 0) /\ IsNumber(last'.arg) /\ Ge(last'.arg, Zero)
             /\ last'.res.msg = "Account created successfully")
          => LET id == last'.res.val.v
             IN /\ id \notin DOMAIN accounts
                /\ DOMAIN accounts' = DOMAIN accounts \cup {id}
                /\ \A m \in DOMAIN accounts : accounts'[m] = accounts[m]
                /\ get_account(accounts', id) # NoAccount
                /\ Eq(get_balance(get_account(accounts', id)), last'.arg)
       /\ \A n \in Ids :
            (Called("get_account", n) /\ n \notin DOMAIN accounts)
            => /\ last'.res = Return("NoneType", "", None)
               /\ accounts' = accounts]_vars

\* an account was created with a positive balance beside another one, and then
\* an absent id was looked up
C9_Witness ==
    /\ prev.op = "create_account" /\ prev.msg = "Account created successfully"
    /\ last.op = "get_account" /\ last.res.type = "NoneType"
    /\ \E n \in DOMAIN accounts : Gt(accounts[n].balance, Zero)

\* ---------------------------------------------------------------- C10
\* C10: the transaction log of an account is append-only: every step keeps the
\* log it had as a prefix, and the log grows, by exactly one record, only in a
\* successful deposit or withdraw of that same account.
C10_LogAppendOnly ==
    [][\A n \in DOMAIN accounts \cap DOMAIN accounts' :
         LET old == get_transaction_history(accounts[n])
             new == get_transaction_history(accounts'[n])
         IN /\ IsPrefix(old, new)
            /\ new # old
                 => /\ Len(new) = Len(old) + 1
                    /\ Called("deposit", n) \/ Called("withdraw", n)
                    /\ last'.res.tag = "return"]_vars

\* an account whose log holds a deposit followed by a withdrawal
C10_Witness ==
    \E n \in DOMAIN accounts :
        /\ Len(accounts[n].transactions) >= 2
        /\ accounts[n].transactions[1].type = "Deposit"
        /\ accounts[n].transactions[2].type = "Withdrawal"

====
